---- MODULE Spec2Model ----
(***************************************************************************)
(* Model of the deployment orchestration engine of runpod-terminal-ui:     *)
(* PodManager (src/pod_manager.py) driving RunPodClient                    *)
(* (src/runpod_client.py).                                                 *)
(*                                                                         *)
(* The engine runs on one asyncio event loop: the code between two awaits  *)
(* is atomic, and cancel_deploy() (a button handler) can run at any await. *)
(* Every action below is therefore "the awaited call returns, and the      *)
(* coroutine runs up to its next await (issuing the next call) or to its   *)
(* return".  A Fleet API call is logged in `calls` when it is issued       *)
(* (res = "pending") and its entry is completed when it returns.           *)
(***************************************************************************)
EXTENDS Integers, Sequences, FiniteSets, TLC

VARIABLES
    deploy_cancelled,   \* PodManager._deploy_cancelled
    active_deploy,      \* PodManager._active_deploy: 0 (None) or the deploy whose record it holds
    history,            \* lines of the history file, oldest first
    calls,              \* Fleet API calls in issue order, with deploy starts and the cancel
                        \* requests that set the flag during a deploy
    rd,                 \* rolling_deploy coroutines: locals and position, per invocation
    su,                 \* scale_up coroutine: locals and position
    sd,                 \* scale_down coroutine and its gathered tasks
    fn                  \* the last call of a synchronous method (load_history,
                        \* truncate_history, estimate_cost): arguments and result

vars == <<deploy_cancelled, active_deploy, history, calls, rd, su, sd, fn>>

\* ------------------------------------------------------------------ bounds
MaxTargets == 2        \* longest target list of a rolling deploy / scale-down
MaxPolls == 2          \* most health polls a modelled health_check_timeout allows
MaxGraceMinutes == 1   \* longest modelled grace_period_minutes
MaxCount == 3          \* largest modelled scale_up count
MaxFaults == 2         \* most Fleet API calls that fail during one rolling deploy
MaxLines == 4          \* longest modelled history file, in lines
MaxKeep == 2           \* largest modelled `keep` of truncate_history
MaxLimit == 2          \* largest modelled `limit` of load_history
MaxPrice == 2          \* highest modelled hourly GPU price, in price units
MaxUnits == 2          \* largest modelled gpu_count, pod_count and hours of estimate_cost

\* ------------------------------------------------------- program constants
interval == 5          \* _wait_for_healthy: seconds between two polls
SecondsPerMinute == 60 \* rolling_deploy: grace_seconds = grace_period_minutes * 60

Deploys == {1, 2}      \* invocations of rolling_deploy on the one engine instance

\* Pods the caller can select: ids 1..MaxTargets; replacements get fresh ids above.
PodIds == 1..MaxTargets

\* Pod.gpu_count of a selectable pod (distinct per pod so that a wrong count shows).
GpuCountOf(id) == id + 1

Min(a, b) == IF a < b THEN a ELSE b

Range(q) == {q[i] : i \in 1..Len(q)}

\* The table selection the deploy and stop screens pass on: distinct pods, here in
\* descending id order so that list order and id order differ.
Selection == [i \in 1..MaxTargets |-> MaxTargets + 1 - i]

PodLists == {SubSeq(Selection, 1, n) : n \in 0..MaxTargets}

\* health_check_timeout values: none or a negative one, and for every number of polls
\* up to MaxPolls one that is a multiple of the interval or one that is not.
HealthTimeouts ==
    {-1, 0} \cup {interval * p - (p % 2) : p \in 1..MaxPolls}

GraceMinutes == 0..MaxGraceMinutes

\* ------------------------------------------------------------------ client
\* What the HTTP exchange of one _gql call can yield.
Wires ==
    {w \in [net : {"ok", "ConnectError", "TimeoutException", "TransportError"},
            status : {200, 401, 500},
            body : {"data", "nodata", "errors", "notjson"}] :
        w.net # "ok" => (w.status = 200 /\ w.body = "data")}

RunPodErrors ==
    {"RunPodConnectionError", "RunPodTimeoutError", "RunPodAuthError", "RunPodAPIError"}

\* Exceptions of httpx that _gql lets through unwrapped.
OtherErrors == {"TransportError", "HTTPStatusError"}

\* RunPodClient._gql: the returned data ("data", or "nodata" when the expected
\* key is missing or null) or the exception raised.
Gql(w) ==
    IF w.net = "ConnectError" THEN "RunPodConnectionError"
    ELSE IF w.net = "TimeoutException" THEN "RunPodTimeoutError"
    ELSE IF w.net # "ok" THEN "TransportError"
    ELSE IF w.status = 401 THEN "RunPodAuthError"
    ELSE IF w.body = "notjson"
         THEN (IF w.status >= 400 THEN "HTTPStatusError" ELSE "nodata")
    ELSE IF w.body = "errors" THEN "RunPodAPIError"
    ELSE IF w.status >= 400 THEN "RunPodAPIError"
    ELSE w.body

Raised(r) == r \in RunPodErrors \cup OtherErrors

\* RunPodClient.create_pod / get_pod: a pod, or the exception raised.
create_pod(w) ==
    IF Raised(Gql(w)) THEN Gql(w)
    ELSE IF Gql(w) = "nodata" THEN "RunPodAPIError"
    ELSE "pod"

get_pod(w) ==
    IF Raised(Gql(w)) THEN Gql(w)
    ELSE IF Gql(w) = "nodata" THEN "RunPodAPIError"
    ELSE "pod"

\* RunPodClient.terminate_pod / resume_pod / stop_pod: "ok" or the exception raised.
terminate_pod(w) == IF Raised(Gql(w)) THEN Gql(w) ELSE "ok"

resume_pod(w) == IF Raised(Gql(w)) THEN Gql(w) ELSE "ok"

stop_pod(w) == IF Raised(Gql(w)) THEN Gql(w) ELSE "ok"

\* How a finished call is logged.
ResultKind(r) ==
    IF r \in RunPodErrors THEN "RunPodError"
    ELSE IF r \in OtherErrors THEN "Exception"
    ELSE "ok"

\* Pod states a get_pod poll can report: desired status and runtime uptime (-1: runtime is None).
PodStates == [desired_status : {"RUNNING", "EXITED"}, uptime_seconds : {-1, 0, 7}]

\* _wait_for_healthy: the test applied to a polled pod.
IsHealthy(p) ==
    /\ p.desired_status = "RUNNING"
    /\ p.uptime_seconds # -1
    /\ p.uptime_seconds > 0

\* ---------------------------------------------------------------- call log
Call(d, op, pod, old, gpu) ==
    [d |-> d, op |-> op, pod |-> pod, old |-> old, gpu |-> gpu,
     res |-> "pending", healthy |-> FALSE, slept |-> 0]

\* Id the fleet gives the next created pod: fresh, above every selectable pod.
NextPodId(log) ==
    MaxTargets + 1 + Cardinality({i \in 1..Len(log) : log[i].op = "create" /\ log[i].res = "ok"})

Returned(log, i, r) == [log EXCEPT ![i].res = ResultKind(r)]

\* A further call may fail only while fewer than MaxFaults calls have failed.
Faults(log) == Cardinality({i \in 1..Len(log) : log[i].res \in {"RunPodError", "Exception"}})

MayReturn(log, r) == Raised(r) => Faults(log) < MaxFaults

\* Deploy starts and effective cancel requests are logged between the calls.
Mark(d, op) == Call(d, op, 0, 0, 0)

\* ----------------------------------------------------------- rolling_deploy
\* A DeployRecord; `error` is the list of messages that "; ".join makes one string of.
\* The operations leave the identifier, the timestamp, the names, the images, the region
\* and the duration, which steer nothing, at these values.
NoRecord ==
    [deploy_id |-> "", timestamp |-> "", action |-> "", status |-> "", template_name |-> "",
     gpu_type |-> "", pod_count |-> 0, pod_ids |-> <<>>, old_image |-> "", new_image |-> "",
     region |-> "", error |-> <<>>, duration_seconds |-> 0, notes |-> ""]

\* No pod has been polled.
NoPod == [desired_status |-> "", uptime_seconds |-> -1]

\* Locals of rolling_deploy and its position.  Kept beside them: `countdown`, the
\* on_countdown calls of the current drain, each with the flag at the call; `polled`, the
\* pod the last poll returned; `progress`, the on_progress calls; `cancel_at`, the position
\* at which a cancel request set the flag; `states`, the on_state_change calls.
RdIdle ==
    [pc |-> "idle", target_pods |-> <<>>, health_check_timeout |-> 0, grace_seconds |-> 0,
     idx |-> 0, old_pod |-> 0, new_pod |-> 0, completed_pairs |-> <<>>,
     elapsed |-> 0, remaining |-> 0, slept |-> 0, site |-> "", rb |-> 0, handling |-> FALSE,
     cause |-> "", rollbacks |-> 0, stale_cancel |-> FALSE, oserror |-> FALSE,
     countdown |-> <<>>, polled |-> NoPod, progress |-> <<>>, cancel_at |-> "",
     states |-> <<>>,
     pending |-> 0, record |-> NoRecord]

\* Emit passing on every state but HEALTH_CHECK.
EmitNoHealthCheck(s, pod, state) ==
    IF state = "HEALTH_CHECK" THEN s ELSE [s EXCEPT !.states = Append(@, <<pod, state>>)]

\* `on_state_change(old_pod.id, state, ...)` (lines 207, 222, 229, 235, 247, 269, 277).
Emit(s, pod, state) == [s EXCEPT !.states = Append(@, <<pod, state>>)]

\* Positions at which the coroutine awaits a Fleet API call.
ApiPcs == {"create", "get", "terminate_new", "terminate_old", "rb_terminate", "rb_resume"}

\* AfterRollback reporting an unhealthy replacement as a cancellation.
AfterRollbackAsCancelled(s) ==
    CASE s.site = "top" ->
            [s EXCEPT !.record.status = "rolled_back", !.record.error = <<"Cancelled by user">>,
                      !.pc = "finalize"]
      [] s.site = "create" ->
            [s EXCEPT !.record.status = "failed", !.record.error = <<"Failed to create replacement">>,
                      !.pc = "finalize"]
      [] s.site = "unhealthy" ->
            [s EXCEPT !.record.status = "rolled_back", !.record.error = <<"Cancelled by user">>,
                      !.pc = "finalize"]
      [] s.site = "grace" ->
            [s EXCEPT !.record.status = "rolled_back",
                      !.record.error = <<"Cancelled by user during grace period">>,
                      !.pc = "finalize"]
      [] OTHER -> [s EXCEPT !.pc = "finalize"]

\* The code after each `await self._rollback_deploy(...)`: lines 201-203, 224-226, 241-243, 263-265, 290.
AfterRollback(s) ==
    CASE s.site = "top" ->
            [s EXCEPT !.record.status = "rolled_back", !.record.error = <<"Cancelled by user">>,
                      !.pc = "finalize"]
      [] s.site = "create" ->
            [s EXCEPT !.record.status = "failed", !.record.error = <<"Failed to create replacement">>,
                      !.pc = "finalize"]
      [] s.site = "unhealthy" ->
            [s EXCEPT !.record.status = "failed", !.record.error = <<"failed health check">>,
                      !.pc = "finalize"]
      [] s.site = "grace" ->
            [s EXCEPT !.record.status = "rolled_back",
                      !.record.error = <<"Cancelled by user during grace period">>,
                      !.pc = "finalize"]
      [] OTHER -> [s EXCEPT !.pc = "finalize"]

\* _rollback_deploy, head of its for loop: the next pair's replacement is terminated, or the loop is over.
RollbackLoop(s) ==
    IF s.rb <= Len(s.completed_pairs) THEN [s EXCEPT !.pc = "rb_terminate"]
    ELSE AfterRollback(s)

\* The deploy leaves its normal course at the given place; `cause` keeps the first one.
Abort(s, site) == [s EXCEPT !.site = site, !.cause = IF @ = "" THEN site ELSE @]

\* _rollback_deploy called from the given call site (`rollbacks` counts its invocations).
rollback_deploy(s, site) ==
    RollbackLoop([Abort(s, site) EXCEPT !.record.status = "rolling_back", !.rb = 1,
                                        !.rollbacks = @ + 1])

\* An exception leaves the try body: `except Exception` (lines 285-288).  One raised
\* inside the handler itself leaves rolling_deploy.
Except(s, e) ==
    IF s.handling THEN [s EXCEPT !.pc = "raise"]
    ELSE rollback_deploy(
            [s EXCEPT !.record.status = "failed", !.record.error = <<"str(e)">>, !.handling = TRUE],
            "except")

\* LoopTop reporting the old pods' ids in pod_ids.
LoopTopOldIds(s, cancelled) ==
    IF s.idx > Len(s.target_pods)
    THEN [s EXCEPT !.record.status = "completed",
                   !.record.pod_ids = [i \in 1..Len(s.completed_pairs) |-> s.completed_pairs[i][1]],
                   !.pc = "finalize"]
    ELSE IF cancelled THEN rollback_deploy(s, "top")
    ELSE [Emit(s, s.target_pods[s.idx], "CREATE_NEW") EXCEPT
            !.pc = "create", !.old_pod = s.target_pods[s.idx]]

\* Head of `for idx, old_pod in enumerate(target_pods)` with its else branch (lines 198-203, 280-283).
LoopTop(s, cancelled) ==
    IF s.idx > Len(s.target_pods)
    THEN [s EXCEPT !.record.status = "completed",
                   !.record.pod_ids = [i \in 1..Len(s.completed_pairs) |-> s.completed_pairs[i][2]],
                   !.pc = "finalize"]
    ELSE IF cancelled THEN rollback_deploy(s, "top")
    ELSE [Emit(s, s.target_pods[s.idx], "CREATE_NEW") EXCEPT
            !.pc = "create", !.old_pod = s.target_pods[s.idx]]

\* Unhealthy with `continue` in place of the abort: the deploy goes on to the next target.
UnhealthyContinue(s) ==
    IF s.idx < Len(s.target_pods)
    THEN [Emit(s, s.target_pods[s.idx + 1], "CREATE_NEW") EXCEPT
            !.pc = "create", !.idx = @ + 1, !.old_pod = s.target_pods[s.idx + 1], !.elapsed = 0]
    ELSE [Abort(Emit(s, s.old_pod, "ROLLING_BACK"), "unhealthy") EXCEPT
            !.pc = "terminate_new", !.elapsed = 0]

\* _wait_for_healthy returned False (its local `elapsed` is gone); `if not healthy:`
\* (lines 233-237): the replacement is terminated first.
Unhealthy(s) ==
    [Abort(Emit(s, s.old_pod, "ROLLING_BACK"), "unhealthy") EXCEPT
        !.pc = "terminate_new", !.elapsed = 0]

\* HealthLoop without the `if self._deploy_cancelled: return False` test.
HealthLoopUncancellable(s, cancelled) ==
    IF s.elapsed < s.health_check_timeout THEN [s EXCEPT !.pc = "get"]
    ELSE Unhealthy(s)

\* Head of the while loop of _wait_for_healthy (lines 301-305, 316).
HealthLoop(s, cancelled) ==
    IF s.elapsed < s.health_check_timeout /\ ~cancelled THEN [s EXCEPT !.pc = "get"]
    ELSE Unhealthy(s)

\* Report passing on the non-zero values only.
ReportNonZero(s, value, cancelled) ==
    IF value = 0 THEN s ELSE [s EXCEPT !.countdown = Append(@, <<value, cancelled>>)]

\* `on_countdown(remaining)` / `on_countdown(0)` (lines 250-251, 254-255).
Report(s, value, cancelled) == [s EXCEPT !.countdown = Append(@, <<value, cancelled>>)]

\* GraceLoop without the `if self._deploy_cancelled:` test after the loop.
GraceLoopUnchecked(s, cancelled) ==
    IF s.remaining > 0 /\ ~cancelled
    THEN [Report(s, s.remaining, cancelled) EXCEPT !.pc = "grace_sleep"]
    ELSE [Emit(Report(s, 0, cancelled), s.old_pod, "TERMINATE_OLD") EXCEPT !.pc = "terminate_old"]

\* Head of the grace loop and the code after it (lines 249-271).  `remaining` is not
\* read after the loop; a cancelled drain leaves it stale and the model clears it.
\* `slept` counts the seconds the current drain has waited.
GraceLoop(s, cancelled) ==
    IF s.remaining > 0 /\ ~cancelled
    THEN [Report(s, s.remaining, cancelled) EXCEPT !.pc = "grace_sleep"]
    ELSE IF cancelled
    THEN [Abort(Report(s, 0, cancelled), "grace") EXCEPT
            !.pc = "terminate_new", !.remaining = 0, !.slept = 0]
    ELSE [Emit(Report(s, 0, cancelled), s.old_pod, "TERMINATE_OLD") EXCEPT !.pc = "terminate_old"]

\* The call the coroutine issues on reaching an awaiting position.
IssuedCall(d, s) ==
    CASE s.pc = "create" -> Call(d, "create", 0, s.old_pod, GpuCountOf(s.old_pod))
      [] s.pc = "get" -> Call(d, "get", s.new_pod, 0, 0)
      [] s.pc = "terminate_new" -> Call(d, "terminate", s.new_pod, 0, 0)
      [] s.pc = "terminate_old" ->
            [Call(d, "terminate", s.old_pod, 0, 0) EXCEPT !.slept = s.slept]
      [] s.pc = "rb_terminate" -> Call(d, "terminate", s.completed_pairs[s.rb][2], 0, 0)
      [] s.pc = "rb_resume" ->
            Call(d, "resume", s.completed_pairs[s.rb][1], 0, GpuCountOf(s.completed_pairs[s.rb][1]))

\* DeployRecord.to_json_line: one line holding a JSON object with every field of the record.
to_json_line(record) ==
    [kind |-> "object",
     d |-> [deploy_id |-> record.deploy_id, timestamp |-> record.timestamp,
            action |-> record.action, status |-> record.status,
            template_name |-> record.template_name, gpu_type |-> record.gpu_type,
            pod_count |-> record.pod_count, pod_ids |-> record.pod_ids,
            old_image |-> record.old_image, new_image |-> record.new_image,
            region |-> record.region, error |-> record.error,
            duration_seconds |-> record.duration_seconds, notes |-> record.notes]]

\* dict.get(key, default) on a parsed JSON object.
Get(d, key, default) == IF key \in DOMAIN d THEN d[key] ELSE default

\* DeployRecord.from_dict: a missing key takes the field's default.
from_dict(d) ==
    [deploy_id |-> Get(d, "deploy_id", ""), timestamp |-> Get(d, "timestamp", ""),
     action |-> Get(d, "action", ""), status |-> Get(d, "status", ""),
     template_name |-> Get(d, "template_name", ""), gpu_type |-> Get(d, "gpu_type", ""),
     pod_count |-> Get(d, "pod_count", 0), pod_ids |-> Get(d, "pod_ids", <<>>),
     old_image |-> Get(d, "old_image", ""), new_image |-> Get(d, "new_image", ""),
     region |-> Get(d, "region", ""), error |-> Get(d, "error", <<>>),
     duration_seconds |-> Get(d, "duration_seconds", 0), notes |-> Get(d, "notes", "")]

\* `open(path, "a")` and `f.write(line + "\n")`: the text lands after the last byte of the
\* file, so behind a last line that has no newline it makes one line with it, which is
\* not JSON.
AppendLine(h, line) ==
    IF h # <<>> /\ h[Len(h)].kind = "cut" THEN [h EXCEPT ![Len(h)] = [kind |-> "garbage"]]
    ELSE Append(h, line)

\* record_deploy with a failing write that still leaves the line in the file.
record_deploy_partial(h, record, write_ok) == Append(h, to_json_line(record))

\* _record_deploy: one line appended; an OSError is swallowed and leaves the file as it was.
record_deploy(h, record, write_ok) == IF write_ok THEN AppendLine(h, to_json_line(record)) ELSE h

\* The coroutine of deploy d has run to its next await, to its return (lines 290-293)
\* or out of rolling_deploy with an exception.  `oserror` notes an OSError swallowed by
\* _record_deploy.
Commit(d, s, log, write_ok, active) ==
    /\ rd' = [rd EXCEPT ![d] =
                [s EXCEPT !.pc = CASE s.pc = "finalize" -> "done"
                                   [] s.pc = "raise" -> "raised"
                                   [] OTHER -> s.pc,
                          !.oserror = (s.pc = "finalize" /\ ~write_ok),
                          !.pending = IF s.pc \in ApiPcs THEN Len(log) + 1 ELSE 0]]
    /\ calls' = IF s.pc \in ApiPcs THEN Append(log, IssuedCall(d, s)) ELSE log
    /\ history' = IF s.pc = "finalize" THEN record_deploy(history, s.record, write_ok) ELSE history
    /\ active_deploy' = IF s.pc = "finalize" THEN 0 ELSE active

EngineIdle ==
    /\ \A d \in Deploys : rd[d].pc = "idle"
    /\ su.pc = "idle"
    /\ sd.pc = "idle"

\* ResetCancelled leaving the flag as it was.
KeepCancelled(flag) == flag

\* `self._deploy_cancelled = False` (line 181).
ResetCancelled(flag) == FALSE

\* rolling_deploy is called: lines 179-199, up to the first create_pod.  `stale_cancel`
\* notes that the flag was set when the deploy was called.
StartRollingDeploy(d, targets, minutes, timeout, write_ok) ==
    /\ rd[d].pc = "idle"
    /\ deploy_cancelled' = ResetCancelled(deploy_cancelled)
    /\ LET s0 == [RdIdle EXCEPT
                    !.stale_cancel = deploy_cancelled,
                    !.target_pods = targets,
                    !.health_check_timeout = timeout,
                    !.grace_seconds = minutes * SecondsPerMinute,
                    !.idx = 1,
                    !.record = [NoRecord EXCEPT !.action = "rolling_deploy",
                                                !.status = "in_progress",
                                                !.pod_count = Len(targets)]]
       IN  Commit(d, LoopTop(s0, ResetCancelled(deploy_cancelled)),
                  Append(calls, Mark(d, "start")), write_ok, d)
    /\ UNCHANGED <<su, sd, fn>>

\* create_pod returns (lines 209-232): a replacement, whose health check starts, or a failure.
CreateReturns(d, w, write_ok) ==
    /\ rd[d].pc = "create"
    /\ MayReturn(calls, create_pod(w))
    /\ LET s == rd[d]
           r == create_pod(w)
           id == NextPodId(calls)
           log == [Returned(calls, s.pending, r) EXCEPT ![s.pending].pod = IF Raised(r) THEN 0 ELSE id]
       IN  IF Raised(r)
           THEN Commit(d, rollback_deploy(Emit(s, s.old_pod, "FAILED"), "create"),
                       log, write_ok, active_deploy)
           ELSE Commit(d,
                       HealthLoop([Emit(s, s.old_pod, "HEALTH_CHECK") EXCEPT
                                      !.new_pod = id, !.elapsed = 0],
                                  deploy_cancelled),
                       log, write_ok, active_deploy)
    /\ UNCHANGED <<deploy_cancelled, su, sd, fn>>

\* get_pod returns inside _wait_for_healthy (lines 305-314, then 245-249 when healthy).
GetReturns(d, w, p, write_ok) ==
    /\ rd[d].pc = "get"
    /\ MayReturn(calls, get_pod(w))
    /\ LET s == [rd[d] EXCEPT !.polled = IF Raised(get_pod(w)) THEN NoPod ELSE p]
           r == get_pod(w)
           ok == ~Raised(r) /\ IsHealthy(p)
           log == [Returned(calls, s.pending, r) EXCEPT ![s.pending].healthy = ok]
       IN  IF r \in OtherErrors THEN Commit(d, Except(s, r), log, write_ok, active_deploy)
           ELSE IF ok
           THEN Commit(d,
                       GraceLoop([Emit(s, s.old_pod, "DRAINING") EXCEPT
                                     !.remaining = s.grace_seconds, !.slept = 0, !.elapsed = 0],
                                 deploy_cancelled),
                       log, write_ok, active_deploy)
           ELSE Commit(d, [s EXCEPT !.pc = "health_sleep"], log, write_ok, active_deploy)
    /\ UNCHANGED <<deploy_cancelled, su, sd, fn>>

\* Tick counting every wait twice.
TickTwice(elapsed) == elapsed + 2 * interval

\* `elapsed += interval` (line 315).
Tick(elapsed) == elapsed + interval

\* asyncio.sleep(interval) returns inside _wait_for_healthy (lines 314-315).
HealthSleepReturns(d, write_ok) ==
    /\ rd[d].pc = "health_sleep"
    /\ Commit(d, HealthLoop([rd[d] EXCEPT !.elapsed = Tick(@), !.polled = NoPod],
                            deploy_cancelled),
              calls, write_ok, active_deploy)
    /\ UNCHANGED <<deploy_cancelled, su, sd, fn>>

\* asyncio.sleep(min(1, remaining)) returns inside the grace loop (lines 252-253).
GraceSleepReturns(d, write_ok) ==
    /\ rd[d].pc = "grace_sleep"
    /\ Commit(d,
              GraceLoop([rd[d] EXCEPT !.remaining = @ - 1, !.slept = @ + Min(1, rd[d].remaining)],
                        deploy_cancelled),
              calls, write_ok, active_deploy)
    /\ UNCHANGED <<deploy_cancelled, su, sd, fn>>

\* terminate_pod(new_pod.id) returns after an unhealthy check or a cancelled drain
\* (lines 236-240, 258-262): only a RunPodError is passed over.
TerminateNewReturns(d, w, write_ok) ==
    /\ rd[d].pc = "terminate_new"
    /\ MayReturn(calls, terminate_pod(w))
    /\ LET s == [rd[d] EXCEPT !.countdown = <<>>, !.polled = NoPod]
           r == terminate_pod(w)
           log == Returned(calls, s.pending, r)
       IN  IF r \in OtherErrors THEN Commit(d, Except(s, r), log, write_ok, active_deploy)
           ELSE Commit(d, rollback_deploy(s, s.site), log, write_ok, active_deploy)
    /\ UNCHANGED <<deploy_cancelled, su, sd, fn>>

\* terminate_pod(old_pod.id) returns (lines 270-279), then the next iteration begins.
TerminateOldReturns(d, w, write_ok) ==
    /\ rd[d].pc = "terminate_old"
    /\ MayReturn(calls, terminate_pod(w))
    /\ LET s == [rd[d] EXCEPT !.countdown = <<>>, !.polled = NoPod]
           r == terminate_pod(w)
           log == Returned(calls, s.pending, r)
       IN  IF r \in OtherErrors THEN Commit(d, Except(s, r), log, write_ok, active_deploy)
           ELSE Commit(d,
                       LoopTop([Emit(s, s.old_pod, "COMPLETED") EXCEPT
                                         !.completed_pairs = Append(@, <<s.old_pod, s.new_pod>>),
                                         !.progress = Append(@, <<Len(s.completed_pairs) + 1,
                                                                  Len(s.target_pods)>>),
                                         !.idx = @ + 1],
                               deploy_cancelled),
                       log, write_ok, active_deploy)
    /\ UNCHANGED <<deploy_cancelled, su, sd, fn>>

\* terminate_pod(new_pod.id) returns inside _rollback_deploy (lines 324-330).
RollbackTerminateReturns(d, w, write_ok) ==
    /\ rd[d].pc = "rb_terminate"
    /\ MayReturn(calls, terminate_pod(w))
    /\ LET s == rd[d]
           r == terminate_pod(w)
           log == Returned(calls, s.pending, r)
       IN  IF r \in OtherErrors THEN Commit(d, Except(s, r), log, write_ok, active_deploy)
           ELSE Commit(d, [s EXCEPT !.pc = "rb_resume"], log, write_ok, active_deploy)
    /\ UNCHANGED <<deploy_cancelled, su, sd, fn>>

\* resume_pod(old_pod.id, ...) returns inside _rollback_deploy (lines 329-332, 322).
RollbackResumeReturns(d, w, write_ok) ==
    /\ rd[d].pc = "rb_resume"
    /\ MayReturn(calls, resume_pod(w))
    /\ LET s == rd[d]
           r == resume_pod(w)
           log == Returned(calls, s.pending, r)
       IN  IF r \in OtherErrors THEN Commit(d, Except(s, r), log, write_ok, active_deploy)
           ELSE Commit(d, RollbackLoop([s EXCEPT !.rb = @ + 1]), log, write_ok, active_deploy)
    /\ UNCHANGED <<deploy_cancelled, su, sd, fn>>

\* The rolling deploys that have been called and have not ended.
Running == {d \in Deploys : rd[d].pc \notin {"idle", "done", "raised"}}

\* cancel_deploy (lines 295-296), from the cancel button at any await, or before a deploy.
\* (After the operation has ended the flag is not read again and the request is left out.)
CancelDeploy ==
    /\ EngineIdle \/ active_deploy # 0 \/ Running # {}
    /\ deploy_cancelled' = TRUE
    /\ calls' = IF ~deploy_cancelled /\ (active_deploy # 0 \/ Running # {})
                THEN Append(calls, Mark(0, "cancel"))
                ELSE calls
    /\ rd' = [d \in Deploys |->
                IF ~deploy_cancelled /\ d \in Running THEN [rd[d] EXCEPT !.cancel_at = rd[d].pc]
                ELSE rd[d]]
    /\ UNCHANGED <<active_deploy, history, su, sd, fn>>

\* ----------------------------------------------------------------- scale_up
\* Messages the service can put in the `errors` of a create_pod response.
Messages ==
    {"There are no longer any instances available",
     "THERE ARE NO LONGER ANY INSTANCES AVAILABLE",
     "Something went wrong"}

\* str.lower() on the modelled messages.
Lower(m) ==
    CASE m = "There are no longer any instances available" ->
            "there are no longer any instances available"
      [] m = "THERE ARE NO LONGER ANY INSTANCES AVAILABLE" ->
            "there are no longer any instances available"
      [] m = "Something went wrong" -> "something went wrong"
      [] OTHER -> m

\* str(e) of a failed create_pod: the service's message, or the client's own text.
ErrorText(w, m) ==
    IF Gql(w) = "RunPodAPIError" /\ w.body = "errors" THEN m ELSE create_pod(w)

\* OutOfGpus without the lower-casing.
OutOfGpusCaseSensitive(text) == text = "there are no longer any instances available"

\* `"no longer any instances available" in str(e).lower()` (line 98)
OutOfGpus(text) == Lower(text) = "there are no longer any instances available"

SuIdle ==
    [pc |-> "idle", count |-> 0, i |-> 0, created_pods |-> <<>>, errors |-> <<>>,
     progress |-> <<>>, pending |-> 0, oserror |-> FALSE, record |-> NoRecord]

\* ScaleUpStatus failing on any error.
ScaleUpStatusStrict(errors, created_pods) ==
    IF errors # <<>> THEN "failed" ELSE "completed"

\* Lines 108-113: the status of the scale_up record.
ScaleUpStatus(errors, created_pods) ==
    IF errors # <<>>
    THEN (IF created_pods = <<>> THEN "failed" ELSE "completed")
    ELSE "completed"

\* ScaleUpReturn leaving pod_count at the requested count.
ScaleUpReturnKeepCount(s, log, write_ok) ==
    LET record == [s.record EXCEPT
                     !.pod_ids = s.created_pods,
                     !.error = s.errors,
                     !.status = ScaleUpStatus(s.errors, s.created_pods)]
    IN  /\ su' = [s EXCEPT !.pc = "done", !.pending = 0, !.record = record,
                           !.oserror = ~write_ok]
        /\ history' = record_deploy(history, record, write_ok)
        /\ calls' = log

\* Lines 104-115: the record is finalised, journaled and returned.
ScaleUpReturn(s, log, write_ok) ==
    LET record == [s.record EXCEPT
                     !.pod_ids = s.created_pods,
                     !.pod_count = Len(s.created_pods),
                     !.error = s.errors,
                     !.status = ScaleUpStatus(s.errors, s.created_pods)]
    IN  /\ su' = [s EXCEPT !.pc = "done", !.pending = 0, !.record = record,
                           !.oserror = ~write_ok]
        /\ history' = record_deploy(history, record, write_ok)
        /\ calls' = log

\* ScaleUpLoop as a loop that tests its condition after the first pass.
ScaleUpLoopAtLeastOnce(s, log, write_ok) ==
    IF s.i < s.count \/ s.i = 0
    THEN /\ su' = [s EXCEPT !.pc = "create", !.pending = Len(log) + 1]
         /\ calls' = Append(log, Call(0, "create", 0, 0, 0))
         /\ UNCHANGED history
    ELSE ScaleUpReturn(s, log, write_ok)

\* Head of `for i in range(count)` (lines 76-79): the next create_pod is issued, or the loop is over.
ScaleUpLoop(s, log, write_ok) ==
    IF s.i < s.count
    THEN /\ su' = [s EXCEPT !.pc = "create", !.pending = Len(log) + 1]
         /\ calls' = Append(log, Call(0, "create", 0, 0, 0))
         /\ UNCHANGED history
    ELSE ScaleUpReturn(s, log, write_ok)

\* scale_up is called (lines 62-79).
StartScaleUp(count, write_ok) ==
    /\ su.pc = "idle"
    /\ ScaleUpLoop([SuIdle EXCEPT !.count = count,
                                  !.record = [NoRecord EXCEPT !.action = "scale_up",
                                                              !.status = "in_progress",
                                                              !.pod_count = count]],
                   calls, write_ok)
    /\ UNCHANGED <<deploy_cancelled, active_deploy, rd, sd, fn>>

\* create_pod returns inside scale_up (lines 79-102).
ScaleUpCreateReturns(w, m, write_ok) ==
    /\ su.pc = "create"
    /\ LET s == su
           r == create_pod(w)
           id == NextPodId(calls)
           log == [Returned(calls, s.pending, r) EXCEPT ![s.pending].pod = IF Raised(r) THEN 0 ELSE id]
           text == ErrorText(w, m)
       IN  IF ~Raised(r)
           THEN ScaleUpLoop([s EXCEPT !.created_pods = Append(@, id),
                                      !.progress = Append(@, <<s.i + 1, s.count>>),
                                      !.i = @ + 1],
                            log, write_ok)
           ELSE IF OutOfGpus(text)
           THEN ScaleUpReturn([s EXCEPT !.errors = @ \o <<<<"Pod", s.i + 1, text>>,
                                                          <<"Stopped after", Len(s.created_pods), s.count>>>>],
                              log, write_ok)
           ELSE ScaleUpLoop([s EXCEPT !.errors = Append(@, <<"Pod", s.i + 1, text>>), !.i = @ + 1],
                            log, write_ok)
    /\ UNCHANGED <<deploy_cancelled, active_deploy, rd, sd, fn>>

\* --------------------------------------------------------------- scale_down
SdIdle ==
    [pc |-> "idle", pod_ids |-> <<>>, action |-> "", results |-> <<>>, first |-> 0,
     progress |-> <<>>, oserror |-> FALSE, record |-> NoRecord]

Actions == {"stop", "terminate"}

\* scale_down is called (lines 125-150): gather starts one _stop_one task per pod id,
\* and each issues its call.
StartScaleDown(pod_ids, action) ==
    /\ sd.pc = "idle"
    /\ sd' = [SdIdle EXCEPT
                !.pc = "gather",
                !.pod_ids = pod_ids,
                !.action = action,
                !.results = [i \in 1..Len(pod_ids) |-> "pending"],
                !.first = Len(calls),
                !.record = [NoRecord EXCEPT !.action = "scale_down",
                                            !.status = "in_progress",
                                            !.pod_count = Len(pod_ids),
                                            !.pod_ids = pod_ids,
                                            !.notes = action]]
    /\ calls' = calls \o [i \in 1..Len(pod_ids) |->
                            Call(0, IF action = "terminate" THEN "terminate" ELSE "stop",
                                 pod_ids[i], 0, 0)]
    /\ UNCHANGED <<deploy_cancelled, active_deploy, history, rd, su, fn>>

\* The call of task i returns (lines 138-147): _stop_one returns the pod id or the exception.
StopOneReturns(i, w) ==
    /\ sd.pc = "gather"
    /\ i \in 1..Len(sd.pod_ids)
    /\ sd.results[i] = "pending"
    /\ LET r == IF sd.action = "terminate" THEN terminate_pod(w) ELSE stop_pod(w)
       IN  /\ sd' = [sd EXCEPT
                        !.results[i] = IF Raised(r) THEN r ELSE "pod_id",
                        !.progress = IF Raised(r) THEN @ ELSE Append(@, <<i, Len(sd.pod_ids)>>)]
           /\ calls' = Returned(calls, sd.first + i, r)
    /\ UNCHANGED <<deploy_cancelled, active_deploy, history, rd, su, fn>>

\* ErrorsOf keeping one message however many calls failed.
ErrorsOfFirst(results) ==
    IF \E i \in 1..Len(results) : Raised(results[i])
    THEN <<results[CHOOSE i \in 1..Len(results) : Raised(results[i])]>>
    ELSE <<>>

\* The results that are exceptions, in input order (lines 152-155).
RECURSIVE ErrorsOf(_)
ErrorsOf(results) ==
    IF results = <<>> THEN <<>>
    ELSE LET rest == ErrorsOf(SubSeq(results, 1, Len(results) - 1))
             last == results[Len(results)]
         IN  IF Raised(last) THEN Append(rest, last) ELSE rest

\* GatherReturns returning as soon as one task has finished.
GatherReturnsFirst(write_ok) ==
    /\ sd.pc = "gather"
    /\ \E i \in 1..Len(sd.pod_ids) : sd.results[i] # "pending"
    /\ LET errors == ErrorsOf(sd.results)
           record == [sd.record EXCEPT
                        !.error = errors,
                        !.status = IF errors # <<>> THEN "failed" ELSE "completed"]
       IN  /\ sd' = [sd EXCEPT !.pc = "done", !.record = record, !.oserror = ~write_ok]
           /\ history' = record_deploy(history, record, write_ok)
    /\ UNCHANGED <<deploy_cancelled, active_deploy, calls, rd, su, fn>>

\* gather returns once every task has finished (lines 150-165).
GatherReturns(write_ok) ==
    /\ sd.pc = "gather"
    /\ \A i \in 1..Len(sd.pod_ids) : sd.results[i] # "pending"
    /\ LET errors == ErrorsOf(sd.results)
           record == [sd.record EXCEPT
                        !.error = errors,
                        !.status = IF errors # <<>> THEN "failed" ELSE "completed"]
       IN  /\ sd' = [sd EXCEPT !.pc = "done", !.record = record, !.oserror = ~write_ok]
           /\ history' = record_deploy(history, record, write_ok)
    /\ UNCHANGED <<deploy_cancelled, active_deploy, calls, rd, su, fn>>

\* ------------------------------------------------------------------ history
\* No synchronous method has been called.
FnIdle == [op |-> "none"]

\* Records met in a history file.
SampleRecords ==
    {[NoRecord EXCEPT !.action = "scale_up", !.status = "completed", !.pod_count = 1,
                      !.pod_ids = <<MaxTargets + 1>>],
     [NoRecord EXCEPT !.action = "rolling_deploy", !.status = "rolled_back", !.pod_count = 1,
                      !.error = <<"Cancelled by user">>]}

\* A record none of whose fourteen fields has its default value.
FullRecord ==
    [deploy_id |-> "0a1b2c3d", timestamp |-> "2024-01-01T00:00:00+00:00",
     action |-> "rolling_deploy", status |-> "failed", template_name |-> "template",
     gpu_type |-> "gpu", pod_count |-> 2, pod_ids |-> <<MaxTargets + 1, MaxTargets + 2>>,
     old_image |-> "old", new_image |-> "new", region |-> "region",
     error |-> <<"first", "second">>, duration_seconds |-> 3, notes |-> "notes"]

\* Lines a history file can hold: a record as _record_deploy writes it, a JSON object
\* lacking keys, text that is not JSON, a blank line, JSON that is not an object (a number,
\* a string, a list), and "cut": text that is not JSON with no newline after it (a write
\* that was cut off), which can only be the last line.
HistoryLines ==
    {to_json_line(r) : r \in SampleRecords}
        \cup {[kind |-> "object", d |-> [status |-> "failed"]],
              [kind |-> "garbage"], [kind |-> "blank"], [kind |-> "scalar"], [kind |-> "cut"]}

HistoryFiles ==
    {f \in UNION {[1..n -> HistoryLines] : n \in 0..MaxLines} :
        \A i \in 1..(Len(f) - 1) : f[i].kind # "cut"}

Reverse(q) == [i \in 1..Len(q) |-> q[Len(q) + 1 - i]]

\* load_history (lines 344-362): blank lines and lines json.loads rejects are skipped;
\* from_dict on JSON that is not an object raises AttributeError, which is not caught.
load_history(lines, limit) ==
    IF \E i \in 1..Len(lines) : lines[i].kind = "scalar"
    THEN [raised |-> "AttributeError", value |-> <<>>]
    ELSE LET objects == SelectSeq(lines, LAMBDA l : l.kind = "object")
             records == [i \in 1..Len(objects) |-> from_dict(objects[i].d)]
         IN  [raised |-> "", value |-> SubSeq(Reverse(records), 1, Min(limit, Len(records)))]

\* The Python slice lines[-keep:] for keep >= 0 (lines[-0:] is the whole list).
LastLines(lines, keep) ==
    IF keep = 0 \/ keep >= Len(lines) THEN lines
    ELSE SubSeq(lines, Len(lines) - keep + 1, Len(lines))

\* truncate_history (lines 364-374): the lines the file holds afterwards.
truncate_history(lines, keep) ==
    IF Len(lines) > keep * 2 THEN LastLines(lines, keep) ELSE lines

\* LoadHistory rewriting the file without the lines it skipped.
LoadHistoryRepairing(limit) ==
    /\ fn' = [op |-> "load_history", limit |-> limit, result |-> load_history(history, limit),
              again |-> (fn.op = "load_history" /\ fn.limit = limit)]
    /\ history' = SelectSeq(history, LAMBDA l : l.kind \in {"object", "scalar"})
    /\ UNCHANGED <<deploy_cancelled, active_deploy, calls, rd, su, sd>>

\* load_history(limit) is called; the file is opened for reading only (line 349).
\* `again` notes that the call before was the same.
LoadHistory(limit) ==
    /\ fn' = [op |-> "load_history", limit |-> limit, result |-> load_history(history, limit),
              again |-> (fn.op = "load_history" /\ fn.limit = limit)]
    /\ UNCHANGED <<deploy_cancelled, active_deploy, history, calls, rd, su, sd>>

\* truncate_history(keep) is called; `before` keeps the lines the file held.
TruncateHistory(keep) ==
    /\ fn' = [op |-> "truncate_history", keep |-> keep, before |-> history]
    /\ history' = truncate_history(history, keep)
    /\ UNCHANGED <<deploy_cancelled, active_deploy, calls, rd, su, sd>>

\* _record_deploy(record) is called on its own; `before` keeps what load_history(limit)
\* returned just before.
RecordDeploy(record, write_ok, limit) ==
    /\ Len(history) <= MaxLines
    /\ fn' = [op |-> "record_deploy", record |-> record, write_ok |-> write_ok, limit |-> limit,
              before |-> load_history(history, limit)]
    /\ history' = record_deploy(history, record, write_ok)
    /\ UNCHANGED <<deploy_cancelled, active_deploy, calls, rd, su, sd>>

\* The history methods on any file of up to MaxLines lines.
InitHistory ==
    /\ deploy_cancelled = FALSE
    /\ active_deploy = 0
    /\ history \in HistoryFiles
    /\ calls = <<>>
    /\ rd = [d \in Deploys |-> RdIdle]
    /\ su = SuIdle
    /\ sd = SdIdle
    /\ fn = FnIdle

NextHistory ==
    \/ \E limit \in 0..MaxLimit : LoadHistory(limit)
    \/ \E keep \in 0..MaxKeep : TruncateHistory(keep)
    \/ \E record \in {FullRecord}, write_ok \in BOOLEAN, limit \in 1..MaxLimit :
            RecordDeploy(record, write_ok, limit)

SpecHistory == InitHistory /\ [][NextHistory]_vars

\* ----------------------------------------------------------- estimate_cost
\* GpuType: the two hourly prices, in price units.
GpuTypes == [community_price : 0..MaxPrice, secure_price : 0..MaxPrice]

CloudTypes == {"COMMUNITY", "SECURE", "ALL", "community"}

\* lowest_price taking the smaller price, a zero included.
lowest_price_naive(gpu_type) == Min(gpu_type.community_price, gpu_type.secure_price)

\* GpuType.lowest_price (models.py lines 131-134).
lowest_price(gpu_type) ==
    LET prices == {p \in {gpu_type.community_price, gpu_type.secure_price} : p > 0}
    IN  IF prices = {} THEN 0 ELSE CHOOSE p \in prices : \A q \in prices : p <= q

\* PodManager.estimate_cost (lines 25-42).
estimate_cost(gpu_type, gpu_count, pod_count, cloud_type, hours) ==
    LET price == IF cloud_type = "COMMUNITY" THEN gpu_type.community_price
                 ELSE IF cloud_type = "SECURE" THEN gpu_type.secure_price
                 ELSE lowest_price(gpu_type)
        per_pod_hr == price * gpu_count
        total_hr == per_pod_hr * pod_count
    IN  [per_pod_hr |-> per_pod_hr, total_hr |-> total_hr, total_period |-> total_hr * hours]

\* estimate_cost is called.
EstimateCost(gpu_type, gpu_count, pod_count, cloud_type, hours) ==
    /\ fn' = [op |-> "estimate_cost", gpu_type |-> gpu_type, gpu_count |-> gpu_count,
              pod_count |-> pod_count, cloud_type |-> cloud_type, hours |-> hours,
              result |-> estimate_cost(gpu_type, gpu_count, pod_count, cloud_type, hours)]
    /\ UNCHANGED <<deploy_cancelled, active_deploy, history, calls, rd, su, sd>>

NextCost ==
    \E gpu_type \in GpuTypes, gpu_count \in 0..MaxUnits, pod_count \in 0..MaxUnits,
       cloud_type \in CloudTypes, hours \in 0..MaxUnits :
        EstimateCost(gpu_type, gpu_count, pod_count, cloud_type, hours)

\* --------------------------------------------------------------------- Spec
Init ==
    /\ deploy_cancelled = FALSE
    /\ active_deploy = 0
    /\ history = <<>>
    /\ calls = <<>>
    /\ rd = [d \in Deploys |-> RdIdle]
    /\ su = SuIdle
    /\ sd = SdIdle
    /\ fn = FnIdle

RollingDeployStep(d) ==
    \E w \in Wires, write_ok \in BOOLEAN :
        \/ CreateReturns(d, w, write_ok)
        \/ \E p \in PodStates : GetReturns(d, w, p, write_ok)
        \/ HealthSleepReturns(d, write_ok)
        \/ GraceSleepReturns(d, write_ok)
        \/ TerminateNewReturns(d, w, write_ok)
        \/ TerminateOldReturns(d, w, write_ok)
        \/ RollbackTerminateReturns(d, w, write_ok)
        \/ RollbackResumeReturns(d, w, write_ok)

Next ==
    \/ \E targets \in PodLists, minutes \in GraceMinutes, timeout \in HealthTimeouts,
          write_ok \in BOOLEAN :
            EngineIdle /\ StartRollingDeploy(1, targets, minutes, timeout, write_ok)
    \/ \E d \in Deploys : RollingDeployStep(d)
    \/ CancelDeploy
    \/ \E count \in 0..MaxCount, write_ok \in BOOLEAN : EngineIdle /\ StartScaleUp(count, write_ok)
    \/ \E w \in Wires, m \in Messages, write_ok \in BOOLEAN : ScaleUpCreateReturns(w, m, write_ok)
    \/ \E pod_ids \in PodLists, action \in Actions : EngineIdle /\ StartScaleDown(pod_ids, action)
    \/ \E i \in 1..MaxTargets, w \in Wires : StopOneReturns(i, w)
    \/ \E write_ok \in BOOLEAN : GatherReturns(write_ok)

Spec == Init /\ [][Next]_vars

\* estimate_cost on every modelled input.
SpecCost == Init /\ [][NextCost]_vars

\* Two rolling deploys interleaved on one PodManager, each of one pod: the second is
\* called while the first is running.
FirstTargets == <<Selection[1]>>

SecondTargets == <<Selection[MaxTargets]>>

\* A health_check_timeout that allows one poll.
RaceTimeout == interval

\* In the race every exchange with the service succeeds and no grace period is asked
\* for; with one pod per deploy no pair is ever rolled back.
RaceWires == {w \in Wires : ~Raised(Gql(w))}

RaceStep(d) ==
    \E w \in RaceWires :
        \/ CreateReturns(d, w, TRUE)
        \/ \E p \in PodStates : GetReturns(d, w, p, TRUE)
        \/ HealthSleepReturns(d, TRUE)
        \/ TerminateNewReturns(d, w, TRUE)
        \/ TerminateOldReturns(d, w, TRUE)

NextRace ==
    \/ EngineIdle /\ StartRollingDeploy(1, FirstTargets, 0, RaceTimeout, TRUE)
    \/ 1 \in Running /\ StartRollingDeploy(2, SecondTargets, 0, RaceTimeout, TRUE)
    \/ \E d \in Deploys : RaceStep(d)
    \/ CancelDeploy

SpecRace == Init /\ [][NextRace]_vars

\* Every awaited call or sleep of a rolling deploy eventually returns.
SpecLive == Init /\ [][Next]_vars /\ WF_vars(\E d \in Deploys : RollingDeployStep(d))

\* ------------------------------------------------------------------- claims
\* Calls issued by the rolling deploy, by operation and pod.
DeployCalls(op, pod) ==
    {i \in 1..Len(calls) : calls[i].d = 1 /\ calls[i].op = op /\ calls[i].pod = pod}

\* terminate_pod calls of the rolling deploy on target (old) pods.
TerminateOldCalls ==
    {i \in 1..Len(calls) : calls[i].d = 1 /\ calls[i].op = "terminate" /\ calls[i].pod \in PodIds}

\* Replacements the rolling deploy has created.
CreatedCalls ==
    {i \in 1..Len(calls) : calls[i].d = 1 /\ calls[i].op = "create" /\ calls[i].res = "ok"}

\* The pair of an old pod is complete once terminate_pod on it has returned or raised a RunPodError.
PairCompleted(old) ==
    \E i \in DeployCalls("terminate", old) : calls[i].res \in {"ok", "RunPodError"}

Ended == rd[1].pc \in {"done", "raised"}

\* Every completed pair had its replacement terminated and its old pod resumed at its GPU count.
RolledBack ==
    \A p \in 1..Len(rd[1].completed_pairs) :
        /\ DeployCalls("terminate", rd[1].completed_pairs[p][2]) # {}
        /\ \E i \in DeployCalls("resume", rd[1].completed_pairs[p][1]) :
              calls[i].gpu = GpuCountOf(rd[1].completed_pairs[p][1])

\* No call was issued for a target after the one the deploy stopped at.
LaterUntouched ==
    \A j \in (rd[1].idx + 1)..Len(rd[1].target_pods) :
        \A i \in 1..Len(calls) :
            calls[i].d = 1 => (calls[i].old # rd[1].target_pods[j] /\ calls[i].pod # rd[1].target_pods[j])

\* C1: rolling_deploy terminates an old pod only after its replacement was created,
\* a health poll found that replacement healthy, and the whole grace period was waited
\* with no cancellation requested before the terminate call was issued.
C1_TerminateOldOnlyAfterDrain ==
    \A i \in TerminateOldCalls :
        /\ \E c \in 1..(i - 1), g \in 1..(i - 1) :
              /\ c < g
              /\ calls[c].d = 1 /\ calls[c].op = "create" /\ calls[c].res = "ok"
              /\ calls[c].old = calls[i].pod
              /\ calls[g].d = 1 /\ calls[g].op = "get" /\ calls[g].pod = calls[c].pod
              /\ calls[g].healthy
        /\ calls[i].slept = rd[1].grace_seconds
        /\ \A j \in 1..(i - 1) : calls[j].op # "cancel"

\* An old pod was terminated after a real drain, and a cancellation came only afterwards.
C1_Witness ==
    \E i \in TerminateOldCalls :
        /\ rd[1].grace_seconds > 0
        /\ calls[i].res = "ok"
        /\ \E j \in (i + 1)..Len(calls) : calls[j].op = "cancel"

\* C2 (as claimed): when the health check of target k's replacement ends unhealthy, the
\* replacement is terminated, old pod k is not, k gets no pair, no later target is touched,
\* the earlier pairs are rolled back and the record returned has status failed.
C2_UnhealthyAborts ==
    (Ended /\ rd[1].cause = "unhealthy") =>
        /\ rd[1].pc = "done"
        /\ rd[1].record.status = "failed"
        /\ DeployCalls("terminate", rd[1].new_pod) # {}
        /\ DeployCalls("terminate", rd[1].old_pod) = {}
        /\ \A p \in 1..Len(rd[1].completed_pairs) : rd[1].completed_pairs[p][1] # rd[1].old_pod
        /\ LaterUntouched
        /\ RolledBack

\* C3 (as claimed): when the cancellation is seen at the grace-period wait of target k, the
\* replacement of k is terminated, the earlier pairs are rolled back, old pod k is never
\* terminated, no later target is touched and the record returned has status rolled_back.
C3_CancelDuringGrace ==
    (Ended /\ rd[1].cause = "grace") =>
        /\ rd[1].pc = "done"
        /\ rd[1].record.status = "rolled_back"
        /\ DeployCalls("terminate", rd[1].new_pod) # {}
        /\ DeployCalls("terminate", rd[1].old_pod) = {}
        /\ LaterUntouched
        /\ RolledBack

\* C4 (as claimed): when create_pod fails for target k, the earlier pairs are rolled back,
\* old pod k is not terminated, no later target is touched and the record returned has
\* status failed.
C4_CreateFailureAborts ==
    (Ended /\ rd[1].cause = "create") =>
        /\ rd[1].pc = "done"
        /\ rd[1].record.status = "failed"
        /\ DeployCalls("terminate", rd[1].old_pod) = {}
        /\ LaterUntouched
        /\ RolledBack

\* C5 (as claimed): when the flag is found set at the top of the iteration for target k, no
\* replacement is created for k or a later target, the earlier pairs are rolled back and
\* the record returned has status rolled_back with the note "Cancelled by user".
C5_CancelAtTop ==
    (Ended /\ rd[1].cause = "top") =>
        /\ rd[1].pc = "done"
        /\ rd[1].record.status = "rolled_back"
        /\ rd[1].record.error = <<"Cancelled by user">>
        /\ \A j \in rd[1].idx..Len(rd[1].target_pods) :
              \A i \in 1..Len(calls) :
                  ~(calls[i].d = 1 /\ calls[i].op = "create" /\ calls[i].old = rd[1].target_pods[j])
        /\ RolledBack

\* C6: rolling_deploy returns status completed exactly when every target completed its
\* pair; pod_ids is then the list of the replacements' ids in target order, and no
\* replacement was terminated and no pod resumed.
C6_CompletedIffAllPairs ==
    rd[1].pc = "done" =>
        /\ rd[1].record.status = "completed"
              <=> (\A k \in 1..Len(rd[1].target_pods) : PairCompleted(rd[1].target_pods[k]))
        /\ rd[1].record.status = "completed" =>
              /\ Len(rd[1].record.pod_ids) = Len(rd[1].target_pods)
              /\ \A k \in 1..Len(rd[1].target_pods) :
                    \E c \in CreatedCalls :
                        /\ calls[c].old = rd[1].target_pods[k]
                        /\ calls[c].pod = rd[1].record.pod_ids[k]
              /\ \A i \in 1..Len(calls) :
                    calls[i].d = 1 =>
                        /\ calls[i].op # "resume"
                        /\ calls[i].op = "terminate" => calls[i].pod \in PodIds

\* A deploy over the longest target list returned completed.
C6_Witness ==
    /\ rd[1].pc = "done"
    /\ rd[1].record.status = "completed"
    /\ Len(rd[1].target_pods) = MaxTargets

\* C7: targets are processed one at a time in input order: at most one created
\* replacement is neither in a completed pair nor terminated, the j-th create_pod is for
\* the j-th target, and it is issued only after the pair of the (j-1)-th target completed.
C7_OneAtATime ==
    /\ Cardinality({c \in CreatedCalls :
            /\ ~PairCompleted(calls[c].old)
            /\ \A t \in DeployCalls("terminate", calls[c].pod) : calls[t].res # "ok"}) <= 1
    /\ LET creates == {i \in 1..Len(calls) : calls[i].d = 1 /\ calls[i].op = "create"}
       IN  \A c \in creates :
              LET j == Cardinality({i \in creates : i <= c})
              IN  /\ j <= Len(rd[1].target_pods)
                  /\ calls[c].old = rd[1].target_pods[j]
                  /\ j > 1 =>
                        \E t \in DeployCalls("terminate", rd[1].target_pods[j - 1]) :
                            t < c /\ calls[t].res \in {"ok", "RunPodError"}

\* The replacement of the second target has been created while the first pair is complete.
C7_Witness ==
    \E c \in CreatedCalls :
        /\ Len(rd[1].target_pods) >= 2
        /\ calls[c].old = rd[1].target_pods[2]
        /\ rd[1].pc = "get"

\* C8 (as claimed): every invocation of rollback issues one terminate_pod on the new pod
\* and one resume_pod on the old pod, at its GPU count, for every completed pair, whatever
\* calls fail, and rollback does not raise.
C8_RollbackBestEffort ==
    (Ended /\ rd[1].rollbacks > 0) =>
        /\ rd[1].pc = "done"
        /\ \A p \in 1..Len(rd[1].completed_pairs) :
              /\ Cardinality(DeployCalls("terminate", rd[1].completed_pairs[p][2])) = rd[1].rollbacks
              /\ Cardinality({i \in DeployCalls("resume", rd[1].completed_pairs[p][1]) :
                                calls[i].gpu = GpuCountOf(rd[1].completed_pairs[p][1])})
                    = rd[1].rollbacks

\* C9 (as claimed): an unexpected failure inside the loop is caught, rollback of the
\* completed pairs is attempted, and the record returned and journaled has status failed.
C9_UnexpectedFailureFails ==
    (Ended /\ rd[1].handling) =>
        /\ rd[1].pc = "done"
        /\ rd[1].record.status = "failed"
        /\ \A n \in 1..Len(history) : history[n].d.status = "failed"
        /\ RolledBack

\* C10 (as claimed): whatever Fleet API calls fail, scale_up, scale_down and
\* rolling_deploy return a record and never raise.
C10_NeverRaises ==
    /\ \A d \in Deploys : rd[d].pc # "raised"
    /\ su.pc # "raised"
    /\ sd.pc # "raised"

\* No cancel request has set the flag during the deploy.
NoCancelDuringDeploy == \A i \in 1..Len(calls) : calls[i].op # "cancel"

\* C11: a cancel_deploy() call made while no rolling deploy is active has no effect on the
\* rolling deploy started afterwards: unless cancel_deploy() is called again during it, the
\* deploy finds the flag clear and is never cancelled.
C11_StaleCancelIgnored ==
    (rd[1].pc # "idle" /\ rd[1].stale_cancel /\ NoCancelDuringDeploy) =>
        /\ ~deploy_cancelled
        /\ rd[1].cause \notin {"top", "grace"}
        /\ rd[1].record.status # "rolled_back"

\* A deploy called with the flag still set from an earlier request ran to completed.
C11_Witness ==
    /\ rd[1].stale_cancel
    /\ NoCancelDuringDeploy
    /\ rd[1].pc = "done"
    /\ rd[1].record.status = "completed"
    /\ Len(rd[1].target_pods) = MaxTargets

\* Every Fleet API call in the log has returned.
AllReturned ==
    \A i \in 1..Len(calls) : calls[i].op \notin {"start", "cancel"} => calls[i].res # "pending"

\* C12 (as claimed): every invocation of scale_up, scale_down or rolling_deploy appends
\* exactly one record, after its last Fleet API call and before it ends, and the line equals
\* the record returned (a journal whose write fails is the case of C13 and left out here).
C12_JournaledOnce ==
    /\ history # <<>> => AllReturned
    /\ (Ended /\ ~rd[1].oserror) => history = <<to_json_line(rd[1].record)>>
    /\ (su.pc = "done" /\ ~su.oserror) => history = <<to_json_line(su.record)>>
    /\ (sd.pc = "done" /\ ~sd.oserror) => history = <<to_json_line(sd.record)>>

SuCreates == {i \in 1..Len(calls) : calls[i].d = 0 /\ calls[i].op = "create"}

SuCreated == {i \in SuCreates : calls[i].res = "ok"}

SuFailed == {i \in SuCreates : calls[i].res \in {"RunPodError", "Exception"}}

\* The messages that say, in any letter case, that no instances are available.
IsCapacityMessage(text) ==
    text \in {"There are no longer any instances available",
              "THERE ARE NO LONGER ANY INSTANCES AVAILABLE"}

\* C14: scale_up issues its create_pod calls one at a time in index order; a failure that
\* is not capacity exhaustion is recorded and the loop goes on; the first failure with the
\* capacity message (in any case) ends the loop: no later create_pod is issued and the
\* note "Stopped after K/N", K the pods created so far, closes the error text.
C14_ScaleUpLoop ==
    /\ Cardinality({i \in SuCreates : calls[i].res = "pending"}) <= 1
    /\ su.pc = "create" => Cardinality(SuCreates) = su.i + 1
    /\ su.pc = "done" =>
          LET error == su.record.error
              n == Cardinality(SuCreates)
              pods == {k \in 1..Len(error) : error[k][1] = "Pod"}
              full == {k \in pods : IsCapacityMessage(error[k][3])}
              stops == {k \in 1..Len(error) : error[k][1] = "Stopped after"}
          IN  /\ Cardinality(pods) = Cardinality(SuFailed)
              /\ \A k \in pods : error[k][2] \in 1..n /\ calls[
                    CHOOSE i \in SuCreates : Cardinality({j \in SuCreates : j <= i}) = error[k][2]
                    ].res # "ok"
              /\ IF full = {}
                 THEN n = su.count /\ stops = {}
                 ELSE /\ Cardinality(full) = 1
                      /\ \A k \in full :
                            /\ error[k][2] = n
                            /\ k = Len(error) - 1
                      /\ error[Len(error)] = <<"Stopped after", Cardinality(SuCreated), su.count>>

\* A scale_up of MaxCount lost its first pod to another error, created the second and was
\* stopped at the third by the capacity message in capitals.
C14_Witness ==
    /\ su.pc = "done"
    /\ su.count = MaxCount
    /\ Len(su.record.error) = 3
    /\ su.record.error[1] = <<"Pod", 1, "Something went wrong">>
    /\ su.record.error[2] = <<"Pod", MaxCount, "THERE ARE NO LONGER ANY INSTANCES AVAILABLE">>
    /\ su.record.error[3] = <<"Stopped after", MaxCount - 2, MaxCount>>

\* C15: the scale_up record has status failed iff a creation failed and no pod was created;
\* otherwise it is completed, and every failure still shows in the error field.
C15_ScaleUpStatus ==
    su.pc = "done" =>
        /\ su.record.status = "failed" <=> (SuFailed # {} /\ SuCreated = {})
        /\ su.record.status # "failed" => su.record.status = "completed"
        /\ Cardinality({k \in 1..Len(su.record.error) : su.record.error[k][1] = "Pod"})
              = Cardinality(SuFailed)

\* A scale_up with a failed creation and a created pod returned completed, with the error.
C15_Witness ==
    /\ su.pc = "done"
    /\ su.record.status = "completed"
    /\ SuFailed # {}
    /\ SuCreated # {}
    /\ su.record.error # <<>>

\* C16: in the final scale_up record pod_ids lists the ids of the pods whose create_pod
\* succeeded, in creation order, and pod_count is its length, at most the requested count.
C16_ScaleUpPodIds ==
    su.pc = "done" =>
        /\ Len(su.record.pod_ids) = Cardinality(SuCreated)
        /\ \A k \in 1..Len(su.record.pod_ids) :
              \E i \in SuCreated :
                  /\ calls[i].pod = su.record.pod_ids[k]
                  /\ Cardinality({j \in SuCreated : j <= i}) = k
        /\ su.record.pod_count = Len(su.record.pod_ids)
        /\ su.record.pod_count <= su.count

\* A scale_up of MaxCount whose second creation failed returned the two created pods.
C16_Witness ==
    /\ su.pc = "done"
    /\ su.count = MaxCount
    /\ su.record.pod_count = MaxCount - 1
    /\ \E i \in SuFailed : Cardinality({j \in SuCreates : j <= i}) = 2

\* C17 (as claimed): in scale_up on_progress is called once after each successful creation,
\* with the number of pods created so far and the requested count.
C17_ScaleUpProgress ==
    /\ Len(su.progress) = Cardinality(SuCreated)
    /\ \A k \in 1..Len(su.progress) : su.progress[k] = <<k, su.count>>

\* Stop / terminate calls of scale_down on a pod.
SdCalls(id) ==
    {i \in 1..Len(calls) :
        calls[i].d = 0 /\ calls[i].op \in {"stop", "terminate"} /\ calls[i].pod = id}

SdAllCalls == UNION {SdCalls(id) : id \in PodIds}

SdFailed == {i \in SdAllCalls : calls[i].res \in {"RunPodError", "Exception"}}

\* C18: scale_down issues exactly one stop call (terminate call for action terminate) for
\* every requested pod id, whatever the other calls yield, and finalises and journals the
\* record only after every call has finished.
C18_ScaleDownFanOut ==
    sd.pc # "idle" =>
        /\ \A k \in 1..Len(sd.pod_ids) :
              /\ Cardinality(SdCalls(sd.pod_ids[k])) = 1
              /\ \A i \in SdCalls(sd.pod_ids[k]) :
                    calls[i].op = (IF sd.action = "terminate" THEN "terminate" ELSE "stop")
        /\ Cardinality(SdAllCalls) = Len(sd.pod_ids)
        /\ (sd.pc = "done" \/ history # <<>> \/ sd.record.status # "in_progress") =>
              \A i \in SdAllCalls : calls[i].res # "pending"

\* A terminate scale_down over MaxTargets pods ended after its first call failed and the
\* others succeeded.
C18_Witness ==
    /\ sd.pc = "done"
    /\ sd.action = "terminate"
    /\ Len(sd.pod_ids) = MaxTargets
    /\ Cardinality(SdFailed) = 1
    /\ \A i \in SdCalls(sd.pod_ids[1]) : i \in SdFailed

\* C19: the scale_down record has status failed iff a per-pod call failed; error then holds
\* one message per failed call, and pod_count / pod_ids are those requested.
C19_ScaleDownStatus ==
    sd.pc = "done" =>
        /\ sd.record.status = "failed" <=> SdFailed # {}
        /\ sd.record.status # "failed" => sd.record.status = "completed"
        /\ Len(sd.record.error) = Cardinality(SdFailed)
        /\ sd.record.pod_count = Len(sd.pod_ids)
        /\ sd.record.pod_ids = sd.pod_ids

\* A scale_down in which every call failed returned failed with one message per call.
C19_Witness ==
    /\ sd.pc = "done"
    /\ Len(sd.pod_ids) = MaxTargets
    /\ Cardinality(SdFailed) = MaxTargets
    /\ sd.record.status = "failed"

\* C20 (as claimed): in scale_down on_progress is called once after each successful call and
\* never for a failed one, with the number of calls completed so far: 1, 2, 3, ...
C20_ScaleDownProgress ==
    /\ Len(sd.progress) = Cardinality({i \in SdAllCalls : calls[i].res = "ok"})
    /\ \A k \in 1..Len(sd.progress) : sd.progress[k] = <<k, Len(sd.pod_ids)>>

\* C24 (as claimed): for every keep >= 0, truncate_history(keep) leaves the last keep lines
\* of a file of more than 2 * keep lines, in order, and any other file as it was.
C24_TruncateKeepsLast ==
    fn.op = "truncate_history" =>
        LET n == Len(fn.before)
        IN  IF n > 2 * fn.keep
            THEN /\ Len(history) = fn.keep
                 /\ \A k \in 1..fn.keep : history[k] = fn.before[n - fn.keep + k]
            ELSE history = fn.before

\* Positions of the lines of the file that hold a JSON object.
ObjectLines == {i \in 1..Len(history) : history[i].kind = "object"}

\* C25 (as claimed): load_history(limit) returns the records of the well-formed lines, most
\* recent first, cut to limit entries; a malformed line is skipped and never makes it fail.
C25_LoadSkipsMalformed ==
    fn.op = "load_history" =>
        /\ fn.result.raised = ""
        /\ Len(fn.result.value) = Min(fn.limit, Cardinality(ObjectLines))
        /\ \A k \in 1..Len(fn.result.value) :
              \E i \in ObjectLines :
                  /\ Cardinality({j \in ObjectLines : j >= i}) = k
                  /\ fn.result.value[k] = from_dict(history[i].d)

C27_Estimate ==
    fn.op = "estimate_cost" =>
        LET c == fn.gpu_type.community_price
            z == fn.gpu_type.secure_price
            price == CASE fn.cloud_type = "COMMUNITY" -> c
                       [] fn.cloud_type = "SECURE" -> z
                       [] OTHER -> (IF c = 0 THEN z ELSE IF z = 0 THEN c ELSE IF c < z THEN c ELSE z)
        IN  /\ fn.result.per_pod_hr = price * fn.gpu_count
            /\ fn.result.total_hr = price * fn.gpu_count * fn.pod_count
            /\ fn.result.total_period = price * fn.gpu_count * fn.pod_count * fn.hours
            /\ price = 0 =>
                  fn.result = [per_pod_hr |-> 0, total_hr |-> 0, total_period |-> 0]

\* A blended estimate with no community price took the secure price.
C27_Witness ==
    /\ fn.op = "estimate_cost"
    /\ fn.cloud_type = "ALL"
    /\ fn.gpu_type.community_price = 0
    /\ fn.gpu_type.secure_price = MaxPrice
    /\ fn.result.total_period = MaxPrice * MaxUnits * MaxUnits * MaxUnits

\* C21: during a drain of G = grace_period_minutes * 60 seconds on_countdown is called
\* with G, G-1, ..., one value per one-second wait, each while the flag is clear, and then
\* with a final 0: an uncancelled drain reports G, ..., 1, 0 before the old pod is
\* terminated, a cancelled one a prefix of G, ..., 1 followed by 0.
C21_Countdown ==
    \A d \in Deploys :
        LET s == rd[d]
            G == s.grace_seconds
            c == s.countdown
            n == Len(c)
        IN  /\ \A i \in 1..n : c[i][1] # 0 => (c[i][1] = G - i + 1 /\ c[i][2] = FALSE)
            /\ \A i \in 1..n : c[i][1] = 0 => (i = n /\ s.pc # "grace_sleep")
            /\ s.pc = "grace_sleep" =>
                  (n = s.slept + 1 /\ c[n][1] = s.remaining /\ s.remaining > 0)
            /\ s.pc = "terminate_old" => (n = G + 1 /\ c[n] = <<0, FALSE>> /\ s.slept = G)
            /\ (s.pc = "terminate_new" /\ s.site = "grace") =>
                  (n \in 1..(G + 1) /\ c[n] = <<0, TRUE>>)

\* The first target was drained in full and the drain of the second was cancelled mid-wait.
C21_Witness ==
    /\ rd[1].pc = "terminate_new"
    /\ rd[1].site = "grace"
    /\ Len(rd[1].progress) = 1
    /\ Len(rd[1].countdown) \in 3..rd[1].grace_seconds

\* The next Fleet API call of the rolling deploy after call i, or 0.
NextDeployCall(i) ==
    LET later == {j \in (i + 1)..Len(calls) : calls[j].d = 1}
    IN  IF later = {} THEN 0 ELSE CHOOSE j \in later : \A k \in later : j <= k

\* A cancel request was logged before call j.
CancelledBefore(j) == \E k \in 1..(j - 1) : calls[k].op = "cancel"

\* C22 (as claimed): the health check reports healthy only on a poll that returned a pod
\* with desired status RUNNING and uptime above zero, and a failed poll is swallowed: the
\* check sleeps and polls the same pod again, ending as unhealthy only once the timeout is
\* reached or cancellation was requested.
C22_PollErrorsSwallowed ==
    /\ (rd[1].pc \in {"grace_sleep", "terminate_old"}
            \/ (rd[1].pc = "terminate_new" /\ rd[1].site = "grace")) =>
          (rd[1].polled.desired_status = "RUNNING" /\ rd[1].polled.uptime_seconds > 0)
    /\ \A i \in 1..Len(calls) :
          (calls[i].d = 1 /\ calls[i].op = "get" /\ calls[i].res \in {"RunPodError", "Exception"}) =>
              LET j == NextDeployCall(i)
              IN  IF j = 0 THEN rd[1].pc = "health_sleep"
                  ELSE /\ calls[j].pod = calls[i].pod
                       /\ calls[j].op \in {"get", "terminate"}
                       /\ calls[j].op = "terminate" =>
                             \/ CancelledBefore(j)
                             \/ Cardinality(DeployCalls("get", calls[i].pod)) * interval
                                    >= rd[1].health_check_timeout

\* Call i is the only Fleet API call that failed.
OnlyFailure(i) ==
    \A k \in 1..Len(calls) : calls[k].res \in {"RunPodError", "Exception"} => k = i

\* C23 (as claimed): a failed terminate_pod on the old pod is ignored: the pair is among
\* the completed ones, on_progress fired for it, the next target's replacement is created,
\* and that failure alone triggers no rollback and leaves the deploy to end completed.
C23_TerminateOldFailureIgnored ==
    \A i \in TerminateOldCalls :
        calls[i].res \in {"RunPodError", "Exception"} =>
            /\ \E p \in 1..Len(rd[1].completed_pairs) :
                  /\ rd[1].completed_pairs[p][1] = calls[i].pod
                  /\ p <= Len(rd[1].progress)
                  /\ rd[1].progress[p] = <<p, Len(rd[1].target_pods)>>
            /\ (OnlyFailure(i) /\ NoCancelDuringDeploy) =>
                  /\ rd[1].cause # "except"
                  /\ IF calls[i].pod = rd[1].target_pods[Len(rd[1].target_pods)]
                     THEN /\ NextDeployCall(i) = 0
                          /\ rd[1].pc = "done"
                          /\ rd[1].record.status = "completed"
                     ELSE /\ NextDeployCall(i) # 0
                          /\ calls[NextDeployCall(i)].op = "create"
                          /\ calls[NextDeployCall(i)].old \in PodIds \ {calls[i].pod}

\* The cancel requests that set the flag while the rolling deploy was running.
CancelMarks == {k \in 1..Len(calls) : calls[k].op = "cancel"}

\* C28: once cancel_deploy() has been called during an active rolling deploy, the deploy
\* issues no further create_pod, get_pod poll or terminate_pod on an old pod: all it issues
\* afterwards is terminate_pod on replacements and resume_pod on old pods; and it ends
\* completed only if the request came after the last target's grace-period check, that is
\* after terminate_pod on the last old pod was issued.
C28_NoNewWorkAfterCancel ==
    \A k \in CancelMarks :
        /\ \A j \in (k + 1)..Len(calls) :
              calls[j].d = 1 =>
                  \/ calls[j].op = "terminate" /\ calls[j].pod \notin PodIds
                  \/ calls[j].op = "resume" /\ calls[j].pod \in PodIds
        /\ (rd[1].pc = "done" /\ rd[1].record.status = "completed") =>
              \E i \in 1..(k - 1) :
                  /\ calls[i].d = 1 /\ calls[i].op = "terminate"
                  /\ calls[i].pod = rd[1].target_pods[Len(rd[1].target_pods)]

\* A deploy cancelled while polling its second replacement ended after terminating
\* replacements and resuming the first old pod.
C28_Witness ==
    /\ rd[1].pc = "done"
    /\ rd[1].cancel_at \in {"get", "health_sleep"}
    /\ Len(rd[1].completed_pairs) = 1
    /\ \E k \in CancelMarks :
          /\ \E j \in (k + 1)..Len(calls) : calls[j].op = "terminate" /\ calls[j].pod = rd[1].new_pod
          /\ \E j \in (k + 1)..Len(calls) : calls[j].op = "resume"

\* cancel_deploy() set the flag while the replacement of the current target was in its
\* health check: during a get_pod poll or the sleep between two polls.
CancelledInHealthCheck == rd[1].cancel_at \in {"get", "health_sleep"}

\* After the cancel request no poll was started, no further replacement was created, and
\* the old pod of the current target was never terminated.
NoWorkAfterCancel ==
    /\ \A k \in CancelMarks : \A j \in (k + 1)..Len(calls) :
          calls[j].d = 1 => calls[j].op \notin {"get", "create"}
    /\ DeployCalls("terminate", rd[1].old_pod) = {}

\* terminate_pod on the current replacement was issued after the cancel request.
ReplacementTerminated ==
    \E k \in CancelMarks : \E j \in (k + 1)..Len(calls) :
        calls[j].d = 1 /\ calls[j].op = "terminate" /\ calls[j].pod = rd[1].new_pod

\* The poll in flight when cancel_deploy() was called reported the pod healthy.
InFlightPollHealthy ==
    /\ rd[1].cancel_at = "get"
    /\ \E k \in CancelMarks : \E g \in 1..(k - 1) :
          /\ calls[g].d = 1 /\ calls[g].op = "get" /\ calls[g].healthy
          /\ \A j \in (g + 1)..(k - 1) : calls[j].d # 1

\* C29 (as claimed): a deploy cancelled during the health check of target k, all of whose
\* calls returned or raised a RunPodError, stops polling with outcome unhealthy, terminates
\* the replacement, rolls back the completed pairs, leaves old pod k alone and ends failed.
C29_CancelDuringHealthCheck ==
    (Ended /\ CancelledInHealthCheck /\ \A i \in 1..Len(calls) : calls[i].res # "Exception") =>
        /\ NoWorkAfterCancel
        /\ rd[1].cause = "unhealthy"
        /\ ReplacementTerminated
        /\ RolledBack
        /\ rd[1].record.status = "failed"

\* C29 (amended): after a cancel request during the health check of target k no poll is
\* started, no replacement is created, old pod k is never terminated and the deploy does
\* not end completed.  The poll in flight at the request is still awaited: if it reports the
\* pod healthy the check returns healthy and the request is taken at the grace-period
\* check (no second is waited, status rolled_back); in every other case the check ends
\* unhealthy and the status is failed.  Either way the replacement is terminated and the
\* completed pairs are rolled back.  A deploy in which an exception reached the outer
\* handler ends with status rolling_back or raises instead.
C29_CancelDuringHealthCheckAmended ==
    CancelledInHealthCheck =>
        /\ NoWorkAfterCancel
        /\ rd[1].pc = "done" => rd[1].record.status # "completed"
        /\ (rd[1].pc = "done" /\ ~rd[1].handling) =>
              /\ ReplacementTerminated
              /\ RolledBack
              /\ IF InFlightPollHealthy
                 THEN /\ rd[1].cause = "grace"
                      /\ rd[1].record.status = "rolled_back"
                      /\ \A i \in TerminateOldCalls : calls[i].pod # rd[1].old_pod
                 ELSE /\ rd[1].cause = "unhealthy"
                      /\ rd[1].record.status = "failed"
        /\ (Ended /\ rd[1].handling) =>
              (rd[1].pc = "raised" \/ rd[1].record.status = "rolling_back")

\* The poll in flight at the cancel request reported the second replacement healthy and
\* the deploy ended rolled_back after undoing the first pair.
C29_Witness ==
    /\ rd[1].pc = "done"
    /\ ~rd[1].handling
    /\ InFlightPollHealthy
    /\ Len(rd[1].completed_pairs) = 1
    /\ rd[1].record.status = "rolled_back"

\* The start marks of the rolling deploys.
StartMarks == {m \in 1..Len(calls) : calls[m].op = "start"}

\* C30: two interleaved rolling deploys race on the one flag: the start of a deploy clears
\* it whatever its value, so the flag is set only while a cancel request is the latest of
\* the starts and requests, and a deploy is aborted as cancelled only through a request
\* that no start followed before the deploy's next call; a request cleared by the other
\* deploy's start is never observed and the first deploy can end completed.
C30_CancelLostToSecondStart ==
    /\ (StartMarks # {} /\ deploy_cancelled) =>
          \E k \in CancelMarks : \A m \in StartMarks : m < k
    /\ (StartMarks # {} /\ \A k \in CancelMarks : \E m \in StartMarks : k < m) => ~deploy_cancelled
    /\ \A d \in Deploys :
          rd[d].cause \in {"top", "grace"} =>
              \E k \in CancelMarks : \E j \in (k + 1)..Len(calls) :
                  /\ calls[j].d = d
                  /\ \A m \in StartMarks : ~(k < m /\ m < j)
    /\ \A d \in Deploys :
          (rd[d].pc = "done" /\ rd[d].cause = "" /\ Len(rd[d].target_pods) > 0
             /\ \E k \in CancelMarks : \E m \in StartMarks : calls[m].d = d /\ m < k) =>
              \/ \E k \in CancelMarks : \E i \in 1..(k - 1) :
                    /\ calls[i].d = d /\ calls[i].op = "terminate"
                    /\ calls[i].pod = rd[d].target_pods[Len(rd[d].target_pods)]
              \/ \E k \in CancelMarks : \E m \in StartMarks :
                    /\ k < m /\ calls[m].d # d
                    /\ \A j \in (k + 1)..(m - 1) : calls[j].d # d

\* cancel_deploy() was called while the first deploy was polling its replacement, the
\* second deploy was called before the first ran again, and the first ended completed.
C30_Witness ==
    /\ rd[1].pc = "done"
    /\ rd[1].record.status = "completed"
    /\ rd[1].cancel_at \in {"get", "health_sleep"}
    /\ CancelMarks # {}
    /\ \A k \in CancelMarks :
          /\ k < Len(calls)
          /\ calls[k + 1] = Mark(2, "start")
          /\ \E j \in (k + 2)..Len(calls) : calls[j].d = 1 /\ calls[j].op = "terminate"

\* C31 (as claimed): when rolling_deploy returns a record whose status is not completed,
\* terminate_pod has been issued for every replacement the deploy created, the one in
\* flight at the abort included.
C31_ReplacementsTerminated ==
    (rd[1].pc = "done" /\ rd[1].record.status # "completed") =>
        \A i \in CreatedCalls : DeployCalls("terminate", calls[i].pod) # {}

\* The statuses a finished operation may report.
TerminalStatuses == {"completed", "failed", "rolled_back"}

\* C32 (as claimed): every record returned or journaled by scale_up, scale_down or
\* rolling_deploy has a terminal status, rolled_back only for rolling_deploy; in_progress
\* and rolling_back are never the status of a returned or journaled record.
C32_TerminalStatus ==
    /\ rd[1].pc = "done" => rd[1].record.status \in TerminalStatuses
    /\ su.pc = "done" => su.record.status \in {"completed", "failed"}
    /\ sd.pc = "done" => sd.record.status \in {"completed", "failed"}
    /\ \A n \in 1..Len(history) :
          /\ history[n].d.status \in TerminalStatuses
          /\ history[n].d.status = "rolled_back" => history[n].d.action = "rolling_deploy"

\* C33 (as claimed): no Fleet API call of a rolling deploy is retried: create_pod is
\* issued at most once per target, terminate_pod at most once per pod, old or replacement,
\* and resume_pod at most once per old pod.
C33_NoRetry ==
    /\ \A old \in PodIds :
          Cardinality({i \in 1..Len(calls) :
                          calls[i].d = 1 /\ calls[i].op = "create" /\ calls[i].old = old}) <= 1
    /\ \A i \in 1..Len(calls) :
          (calls[i].d = 1 /\ calls[i].op \in {"terminate", "resume"}) =>
              Cardinality(DeployCalls(calls[i].op, calls[i].pod)) <= 1

\* C35 (as claimed): when every awaited call eventually returns, a rolling deploy that was
\* called eventually returns a record.
C35_EventuallyReturns == (rd[1].pc # "idle") ~> (rd[1].pc = "done")

\* C37 (as claimed): the active-deploy slot holds the deploy from its start until it
\* returns and is empty whenever no rolling_deploy is executing.
C37_ActiveSlot ==
    /\ 1 \in Running => active_deploy = 1
    /\ Running = {} => active_deploy = 0

\* The Fleet API calls in the log.
ApiCalls == {i \in 1..Len(calls) : calls[i].op \notin {"start", "cancel"}}

\* A no-op success: completed, nothing counted, no pod id, no error text.
EmptySuccess(record) ==
    /\ record.status = "completed"
    /\ record.pod_count = 0
    /\ record.pod_ids = <<>>
    /\ record.error = <<>>

\* C38: empty inputs are a no-op success: scale_up with count 0, scale_down with no pod
\* id and rolling_deploy with no target issue no Fleet API call and return a record with
\* status completed, pod_count 0, no pod ids and no error text.
C38_EmptyInputs ==
    /\ (su.pc # "idle" /\ su.count = 0) =>
          (ApiCalls = {} /\ su.pc = "done" /\ EmptySuccess(su.record))
    /\ (sd.pc # "idle" /\ sd.pod_ids = <<>>) =>
          (ApiCalls = {} /\ (sd.pc = "done" => EmptySuccess(sd.record)) /\ sd.pc # "raised")
    /\ (rd[1].pc # "idle" /\ rd[1].target_pods = <<>>) =>
          (ApiCalls = {} /\ rd[1].pc = "done" /\ EmptySuccess(rd[1].record))

\* scale_up(count = 0) has returned and its record is the one line of the journal.
C38_Witness ==
    /\ su.pc = "done"
    /\ su.count = 0
    /\ history = <<to_json_line(su.record)>>

\* The get_pod polls issued on the current replacement.
Polls == Cardinality(DeployCalls("get", rd[1].new_pod))

\* The replacement of the current target exists and its health check has begun.
InOrPastHealthCheck ==
    rd[1].new_pod # 0 /\ \E i \in CreatedCalls : calls[i].pod = rd[1].new_pod

\* C34: the health check issues at most ceil(health_check_timeout / 5) polls: a poll is
\* issued only while 5 seconds times the polls before it is below the timeout, every poll
\* that does not end the check is followed by a 5-second wait, and a check not cut short
\* by cancellation returns unhealthy exactly when that bound is reached; with a timeout of
\* zero or less no poll is issued, the replacement is declared unhealthy and the deploy
\* does not complete.
C34_PollBound ==
    InOrPastHealthCheck =>
        /\ Polls > 0 => (Polls - 1) * interval < rd[1].health_check_timeout
        /\ rd[1].pc \in {"get", "health_sleep"} => rd[1].elapsed = (Polls - 1) * interval
        /\ (rd[1].cause = "unhealthy" /\ NoCancelDuringDeploy) =>
              Polls * interval >= rd[1].health_check_timeout
        /\ rd[1].health_check_timeout <= 0 =>
              /\ Polls = 0
              /\ rd[1].cause = "unhealthy"
              /\ DeployCalls("terminate", rd[1].old_pod) = {}
              /\ rd[1].pc = "done" => rd[1].record.status # "completed"

\* A check with a timeout that is not a multiple of 5 seconds ended unhealthy at the bound,
\* its last poll failing with a RunPodError, and the deploy returned.
C34_Witness ==
    /\ InOrPastHealthCheck
    /\ rd[1].cause = "unhealthy"
    /\ NoCancelDuringDeploy
    /\ rd[1].health_check_timeout % interval # 0
    /\ Polls * interval > rd[1].health_check_timeout
    /\ \E i \in DeployCalls("get", rd[1].new_pod) : calls[i].res = "RunPodError"
    /\ rd[1].pc = "done"

\* The states on_state_change was called with for one old pod, in order.
StatesOf(pod) ==
    LET ForPod(e) == e[1] = pod
        sel == SelectSeq(rd[1].states, ForPod)
    IN  [i \in 1..Len(sel) |-> sel[i][2]]

FullCycle == <<"CREATE_NEW", "HEALTH_CHECK", "DRAINING", "TERMINATE_OLD", "COMPLETED">>

\* The sequences of states one target may go through.
TargetCycles ==
    {SubSeq(FullCycle, 1, n) : n \in 0..Len(FullCycle)}
        \cup {<<"CREATE_NEW", "FAILED">>, <<"CREATE_NEW", "HEALTH_CHECK", "ROLLING_BACK">>}

\* C36: for each target the states passed to on_state_change form a prefix of CREATE_NEW,
\* HEALTH_CHECK, DRAINING, TERMINATE_OLD, COMPLETED, or end with FAILED right after
\* CREATE_NEW or with ROLLING_BACK right after HEALTH_CHECK; no state is emitted for a
\* target before COMPLETED was emitted for the target before it; and on_progress fires once
\* per completed pair, with (1, N), (2, N), ... in order.
C36_StateOrder ==
    LET s == rd[1]
        N == Len(s.target_pods)
    IN  /\ \A i \in 1..Len(s.states) : \E k \in 1..N : s.states[i][1] = s.target_pods[k]
        /\ \A k \in 1..N : StatesOf(s.target_pods[k]) \in TargetCycles
        /\ \A i \in 1..Len(s.states) : \A k \in 2..N :
              s.states[i][1] = s.target_pods[k] =>
                  \E j \in 1..(i - 1) : s.states[j] = <<s.target_pods[k - 1], "COMPLETED">>
        /\ Len(s.progress) = Cardinality({i \in 1..Len(s.states) : s.states[i][2] = "COMPLETED"})
        /\ Len(s.progress) = Len(s.completed_pairs)
        /\ \A q \in 1..Len(s.progress) : s.progress[q] = <<q, N>>

\* The first target went through the full cycle and the second ended with ROLLING_BACK.
C36_Witness ==
    /\ rd[1].pc = "done"
    /\ Len(rd[1].target_pods) = 2
    /\ StatesOf(rd[1].target_pods[1]) = FullCycle
    /\ StatesOf(rd[1].target_pods[2]) = <<"CREATE_NEW", "HEALTH_CHECK", "ROLLING_BACK">>
    /\ rd[1].progress = <<<<1, 2>>>>

\* C39 (as claimed): after a successful append of a record r, load_history(limit) with
\* limit >= 1 returns r, equal in all fourteen fields, as its first element, followed by
\* the records it returned before the append, in unchanged order.
C39_AppendLoadRoundTrip ==
    (fn.op = "record_deploy" /\ fn.write_ok /\ fn.limit >= 1 /\ fn.before.raised = "") =>
        LET after == load_history(history, fn.limit)
        IN  /\ after.raised = ""
            /\ Len(after.value) = Min(fn.limit, Len(fn.before.value) + 1)
            /\ after.value[1] = fn.record
            /\ DOMAIN after.value[1] = DOMAIN NoRecord
            /\ \A k \in 2..Len(after.value) : after.value[k] = fn.before.value[k - 1]

====
